---- MODULE Spec2Model ----
(***************************************************************************)
(* The terminal session subsystem of maximus (src-tauri/src/pty):          *)
(*   - PtyManager (pty/mod.rs): the registry behind the global mutex, the  *)
(*     spawn/write/resize/kill commands and one reader thread per spawn;   *)
(*   - ClaudeStateParser (pty/claude_parser.rs): the state classifier;     *)
(*   - SemanticBlockParser (pty/semantic_parser.rs): the block segmenter.  *)
(*                                                                         *)
(* A Rust String is a sequence of chars; a char is an atom: an ASCII char  *)
(* is the one-letter string of itself, "LF" "CR" "ESC" "TAB" are the       *)
(* control chars, "BQ" is the backtick and "U+XXXX" is the char of that    *)
(* code point.  Lengths and slice offsets are in UTF-8 bytes, as in Rust.  *)
(* An Option is <<>> (None) or <<x>> (Some(x)).                            *)
(***************************************************************************)
EXTENDS Integers, Sequences, FiniteSets, TLC

\* ------------------------------------------------------------------ chars

LF == "LF"
CR == "CR"
ESC == "ESC"
TAB == "TAB"
\* the backtick
BQ == "BQ"

\* UTF-8 encoded length of the chars the model uses outside ASCII.
TwoByte == {"U+00E9", "U+00F0", "U+0178", "U+00E2", "U+0153", "U+00EF",
            "U+00B8", "U+00BB", "U+0152"}

ThreeByte == {"U+280B", "U+2819", "U+2839", "U+2838", "U+283C", "U+2834",
              "U+2826", "U+2827", "U+2807", "U+280F", "U+2713", "U+201C",
              "U+201E", "U+2019", "U+2014", "U+201D", "U+2026"}

\* char::is_ascii_alphabetic
Alpha == {"a", "b", "c", "d", "e", "f", "g", "h", "i", "j", "k", "l", "m",
          "n", "o", "p", "q", "r", "s", "t", "u", "v", "w", "x", "y", "z",
          "A", "B", "C", "D", "E", "F", "G", "H", "I", "J", "K", "L", "M",
          "N", "O", "P", "Q", "R", "S", "T", "U", "V", "W", "X", "Y", "Z"}

\* char::is_whitespace, for the chars of the model
White == {" ", LF, CR, TAB}

None == <<>>
Some(x) == <<x>>

\* ---------------------------------------------------------------- strings

Wide2(s) == {i \in 1..Len(s) : s[i] \in TwoByte}
Wide3(s) == {i \in 1..Len(s) : s[i] \in ThreeByte}

\* Byte offset of the end of the k-th char of s (0 for k = 0).
ByteOff(s, k) ==
    k + Cardinality({i \in Wide2(s) : i <= k})
      + 2 * Cardinality({i \in Wide3(s) : i <= k})

\* str::len: the length in bytes.
len(s) == ByteOff(s, Len(s))

\* The numbers of chars whose end is at byte offset n (none: n is inside a
\* char or past the end).  A char takes at most 3 bytes here, so the k-th
\* char ends between k and 3k.
CharsAt(s, n) ==
    LET extra == Cardinality(Wide2(s)) + 2 * Cardinality(Wide3(s))
        lo == IF n - extra < 0 THEN 0 ELSE n - extra
        hi == IF n < Len(s) THEN n ELSE Len(s)
    IN  {k \in lo..hi : ByteOff(s, k) = n}

\* str::is_char_boundary
is_char_boundary(s, n) == CharsAt(s, n) # {}

\* &s[n..] for a byte offset n that is a char boundary
SliceFrom(s, n) ==
    LET k == CHOOSE k \in CharsAt(s, n) : TRUE
    IN  SubSeq(s, k + 1, Len(s))

starts_with(s, p) == Len(p) <= Len(s) /\ SubSeq(s, 1, Len(p)) = p

ends_with(s, p) ==
    Len(p) <= Len(s) /\ SubSeq(s, Len(s) - Len(p) + 1, Len(s)) = p

\* str::contains (the first char is compared before the whole pattern)
contains(s, p) ==
    \/ p = <<>>
    \/ \E i \in 1..(Len(s) - Len(p) + 1) :
           s[i] = p[1] /\ SubSeq(s, i, i + Len(p) - 1) = p

\* Index of the first char of s that is in set C, 0 if there is none.
FirstIn(s, C) ==
    IF \A i \in 1..Len(s) : s[i] \notin C THEN 0
    ELSE CHOOSE i \in 1..Len(s) : s[i] \in C /\ \A j \in 1..(i - 1) : s[j] \notin C

\* Index of the last char of s that is not in set C, 0 if there is none.
LastNotIn(s, C) ==
    CHOOSE i \in 0..Len(s) :
        /\ i = 0 \/ s[i] \notin C
        /\ \A j \in (i + 1)..Len(s) : s[j] \in C

\* str::trim_end, str::trim
trim_end(s) == SubSeq(s, 1, LastNotIn(s, White))

trim(s) ==
    LET t == trim_end(s)
    IN  IF t = <<>> THEN <<>>
        ELSE SubSeq(t, CHOOSE i \in 1..Len(t) :
                           t[i] \notin White /\ \A j \in 1..(i - 1) : t[j] \in White,
                    Len(t))

\* str::lines: split at LF, a CR right before the LF is dropped with it; a
\* last line without LF is a line too; no empty line after a final LF.
\* (In the recursive operators the argument is bound through a one-element
\* set, so that it is evaluated once per level.)
RECURSIVE lines(_)
lines_from(s, n) ==
    IF n = 0 THEN <<s>>
    ELSE LET l == SubSeq(s, 1, n - 1)
             line == IF l # <<>> /\ l[Len(l)] = CR
                     THEN SubSeq(l, 1, Len(l) - 1) ELSE l
         IN  <<line>> \o lines(SubSeq(s, n + 1, Len(s)))

lines(s0) ==
    IF s0 = <<>> THEN <<>>
    ELSE CHOOSE r \in {lines_from(s, n) : s \in {s0}, n \in {FirstIn(s0, {LF})}} : TRUE

\* strip_ansi_codes (the same function in both parsers): an ESC is dropped;
\* when "[" follows, everything through the first ASCII letter is dropped
\* too (everything to the end when no letter follows).
RECURSIVE strip_ansi_codes(_)
strip_from(s, e) ==
    IF e = 0 THEN s
    ELSE LET rest == SubSeq(s, e + 1, Len(s))
         IN  IF rest # <<>> /\ rest[1] = "["
             THEN LET t == FirstIn(SubSeq(rest, 2, Len(rest)), Alpha)
                  IN  SubSeq(s, 1, e - 1) \o
                      (IF t = 0 THEN <<>>
                       ELSE strip_ansi_codes(SubSeq(rest, t + 2, Len(rest))))
             ELSE SubSeq(s, 1, e - 1) \o strip_ansi_codes(rest)

\* Variant of strip_ansi_codes: only the first ESC is dropped.
strip_ansi_codes_first(s0) ==
    LET e == FirstIn(s0, {ESC})
    IN  IF e = 0 THEN s0 ELSE SubSeq(s0, 1, e - 1) \o SubSeq(s0, e + 1, Len(s0))

strip_ansi_codes(s0) ==
    CHOOSE r \in {strip_from(s, e) : s \in {s0}, e \in {FirstIn(s0, {ESC})}} : TRUE

\* ------------------------------------------------- ClaudeStateParser

BUFFER_WINDOW == 2048
QUESTION_LINES == 10
QUESTION_MIN_LEN == 10
WRITING_MIN_LEN == 50
IDLE_NEWLINES == 3
U8_MAX == 255

Spinners == {"U+280B", "U+2819", "U+2839", "U+2838", "U+283C", "U+2834",
             "U+2826", "U+2827", "U+2807", "U+280F"}

\* ClaudeStateInfo::default(): state Idle, no tool, no question, not
\* awaiting input.
ClaudeStateInfo_default ==
    [state |-> <<"Idle">>, tool_name |-> None, question |-> None,
     progress |-> None, awaiting_input |-> FALSE]

\* ClaudeStateParser::new
ClaudeStateParser_new ==
    [buffer |-> <<>>, current_state |-> ClaudeStateInfo_default,
     in_claude_block |-> FALSE, newline_count |-> 0]

tool_patterns ==
    << <<(<<"R", "e", "a", "d", "(">>), "Read">>,
       <<(<<"E", "d", "i", "t", "(">>), "Edit">>,
       <<(<<"W", "r", "i", "t", "e", "(">>), "Write">>,
       <<(<<"B", "a", "s", "h", "(">>), "Bash">>,
       <<(<<"G", "l", "o", "b", "(">>), "Glob">>,
       <<(<<"G", "r", "e", "p", "(">>), "Grep">>,
       <<(<<"L", "S", "(">>), "List">>,
       <<(<<"T", "o", "d", "o", "R", "e", "a", "d">>), "Todo">>,
       <<(<<"T", "o", "d", "o", "W", "r", "i", "t", "e">>), "Todo">>,
       <<(<<"W", "e", "b", "F", "e", "t", "c", "h">>), "Web">>,
       <<(<<"W", "e", "b", "S", "e", "a", "r", "c", "h">>), "Search">>,
       <<(<<"T", "a", "s", "k", "(">>), "Task">> >>

\* ClaudeStateParser::detect_tool_use: the first pattern of the table the
\* output contains, else "Command" for "Running:" / "Executing:".
detect_tool_use(output) ==
    LET M == {i \in 1..Len(tool_patterns) : contains(output, tool_patterns[i][1])}
    IN  IF M # {}
        THEN Some(tool_patterns[CHOOSE i \in M : \A j \in M : i <= j][2])
        ELSE IF \/ contains(output, <<"R", "u", "n", "n", "i", "n", "g", ":">>)
                \/ contains(output, <<"E", "x", "e", "c", "u", "t", "i", "n", "g", ":">>)
             THEN Some("Command")
             ELSE None

\* The test detect_question applies to one (trimmed) line.
question_line(trimmed) ==
    \/ ends_with(trimmed, <<"?">>) /\ len(trimmed) > QUESTION_MIN_LEN
    \/ starts_with(trimmed, <<"D", "o", " ", "y", "o", "u", " ", "w", "a", "n", "t">>)
    \/ starts_with(trimmed, <<"W", "o", "u", "l", "d", " ", "y", "o", "u", " ", "l", "i", "k", "e">>)
    \/ starts_with(trimmed, <<"S", "h", "o", "u", "l", "d", " ", "I">>)
    \/ starts_with(trimmed, <<"C", "a", "n", " ", "I">>)
    \/ starts_with(trimmed, <<"M", "a", "y", " ", "I">>)

\* ClaudeStateParser::detect_question: the last of the last 10 lines of the
\* buffer that is a question, trimmed.
detect_question(buffer) ==
    LET ls == lines(buffer)
        n == Len(ls)
        Q == {i \in 1..n : i > n - QUESTION_LINES /\ question_line(trim(ls[i]))}
    IN  IF Q = {} THEN None
        ELSE Some(trim(ls[CHOOSE i \in Q : \A j \in Q : j <= i]))

\* ClaudeStateParser::detect_prompt
detect_prompt(buffer) ==
    LET trimmed == trim_end(buffer)
    IN  \/ ends_with(trimmed, <<">">>)
        \/ ends_with(trimmed, <<"$", " ">>)
        \/ ends_with(trimmed, <<"%", " ">>)
        \/ ends_with(trimmed, <<":", " ">>)
        \/ contains(trimmed, <<"E", "n", "t", "e", "r", " ", "y", "o", "u", "r">>)
        \/ contains(trimmed, <<"T", "y", "p", "e", " ", "y", "o", "u", "r">>)

thinking_marker(clean_output) ==
    \/ \E i \in 1..Len(clean_output) : clean_output[i] \in Spinners
    \/ contains(clean_output, <<"T", "h", "i", "n", "k", "i", "n", "g">>)
    \/ contains(clean_output, <<"t", "h", "i", "n", "k", "i", "n", "g", ".", ".", ".">>)

complete_marker(clean_output) ==
    \/ contains(clean_output, <<"U+2713">>)
    \/ contains(clean_output, <<"D", "o", "n", "e">>)
    \/ contains(clean_output, <<"C", "o", "m", "p", "l", "e", "t", "e", "d">>)
    \/ contains(clean_output, <<"f", "i", "n", "i", "s", "h", "e", "d">>)

error_marker(output, clean_output) ==
    \/ contains(clean_output, <<"E", "r", "r", "o", "r", ":">>)
    \/ contains(clean_output, <<"e", "r", "r", "o", "r", ":">>)
    \/ contains(clean_output, <<"f", "a", "i", "l", "e", "d">>)
    \/ contains(clean_output, <<"F", "a", "i", "l", "e", "d">>)
    \/ contains(output, <<ESC, "[", "3", "1", "m">>)

\* Variant of ClaudeStateParser::detect_state: the thinking indicator is
\* looked for before the tool patterns.
detect_state_thinking_first(p, output) ==
    LET blank == \A i \in 1..Len(output) : output[i] \in {LF, CR}
        nc == IF blank
              THEN (IF p.newline_count < U8_MAX THEN p.newline_count + 1 ELSE U8_MAX)
              ELSE 0
        q == [p EXCEPT !.newline_count = nc]
        cur == q.current_state
        clean_output == strip_ansi_codes(output)
        clean_buffer == strip_ansi_codes(q.buffer)
        tool == detect_tool_use(clean_output)
        question == detect_question(clean_buffer)
    IN  IF thinking_marker(clean_output)
        THEN [q EXCEPT !.current_state =
                 [cur EXCEPT !.state = <<"Thinking">>, !.awaiting_input = FALSE]]
        ELSE IF tool # None
        THEN [q EXCEPT !.current_state =
                 [cur EXCEPT !.state = <<"ToolUse", tool[1]>>,
                             !.tool_name = tool,
                             !.awaiting_input = FALSE]]
        ELSE IF question # None
        THEN [q EXCEPT !.current_state =
                 [cur EXCEPT !.state = <<"Asking">>,
                             !.question = question,
                             !.awaiting_input = TRUE]]
        ELSE IF complete_marker(clean_output)
        THEN [q EXCEPT !.current_state =
                 [cur EXCEPT !.state = <<"Complete">>, !.awaiting_input = FALSE]]
        ELSE IF error_marker(output, clean_output)
        THEN [q EXCEPT !.current_state =
                 [cur EXCEPT !.state = <<"Error">>, !.awaiting_input = FALSE]]
        ELSE IF len(clean_output) > WRITING_MIN_LEN /\ trim(clean_output) # <<>>
        THEN [q EXCEPT !.current_state =
                 [cur EXCEPT !.state = <<"Writing">>, !.awaiting_input = FALSE]]
        ELSE IF /\ detect_prompt(clean_buffer) \/ nc > IDLE_NEWLINES
                /\ \/ contains(clean_buffer, <<">">>)
                   \/ ends_with(clean_buffer, <<"$", " ">>)
                   \/ ends_with(clean_buffer, <<"%", " ">>)
                   \/ contains(clean_buffer, <<"c", "l", "a", "u", "d", "e", ">">>)
        THEN [q EXCEPT !.current_state =
                 [cur EXCEPT !.state = <<"Idle">>,
                             !.awaiting_input = TRUE,
                             !.tool_name = None,
                             !.question = None]]
        ELSE q

\* ClaudeStateParser::detect_state, on the parser p whose buffer already
\* holds the output: the parser after the call.
detect_state(p, output) ==
    LET blank == \A i \in 1..Len(output) : output[i] \in {LF, CR}
        nc == IF blank
              THEN (IF p.newline_count < U8_MAX THEN p.newline_count + 1 ELSE U8_MAX)
              ELSE 0
        q == [p EXCEPT !.newline_count = nc]
        cur == q.current_state
        clean_output == strip_ansi_codes(output)
        clean_buffer == strip_ansi_codes(q.buffer)
        tool == detect_tool_use(clean_output)
        question == detect_question(clean_buffer)
    IN  IF tool # None
        THEN [q EXCEPT !.current_state =
                 [cur EXCEPT !.state = <<"ToolUse", tool[1]>>,
                             !.tool_name = tool,
                             !.awaiting_input = FALSE]]
        ELSE IF thinking_marker(clean_output)
        THEN [q EXCEPT !.current_state =
                 [cur EXCEPT !.state = <<"Thinking">>, !.awaiting_input = FALSE]]
        ELSE IF question # None
        THEN [q EXCEPT !.current_state =
                 [cur EXCEPT !.state = <<"Asking">>,
                             !.question = question,
                             !.awaiting_input = TRUE]]
        ELSE IF complete_marker(clean_output)
        THEN [q EXCEPT !.current_state =
                 [cur EXCEPT !.state = <<"Complete">>, !.awaiting_input = FALSE]]
        ELSE IF error_marker(output, clean_output)
        THEN [q EXCEPT !.current_state =
                 [cur EXCEPT !.state = <<"Error">>, !.awaiting_input = FALSE]]
        ELSE IF len(clean_output) > WRITING_MIN_LEN /\ trim(clean_output) # <<>>
        THEN [q EXCEPT !.current_state =
                 [cur EXCEPT !.state = <<"Writing">>, !.awaiting_input = FALSE]]
        ELSE IF /\ detect_prompt(clean_buffer) \/ nc > IDLE_NEWLINES
                /\ \/ contains(clean_buffer, <<">">>)
                   \/ ends_with(clean_buffer, <<"$", " ">>)
                   \/ ends_with(clean_buffer, <<"%", " ">>)
                   \/ contains(clean_buffer, <<"c", "l", "a", "u", "d", "e", ">">>)
        THEN [q EXCEPT !.current_state =
                 [cur EXCEPT !.state = <<"Idle">>,
                             !.awaiting_input = TRUE,
                             !.tool_name = None,
                             !.question = None]]
        ELSE q

\* Variant of ClaudeStateParser::parse: the state is returned after every
\* call, changed or not.
ClaudeStateParser_parse_always(p, output) ==
    LET pushed == p.buffer \o output
        drain_to == len(pushed) - BUFFER_WINDOW
        over == len(pushed) > BUFFER_WINDOW
    IN  IF over /\ ~is_char_boundary(pushed, drain_to)
        THEN [panic |-> TRUE, parser |-> p, ret |-> None]
        ELSE LET kept == IF over THEN SliceFrom(pushed, drain_to) ELSE pushed
                 result(q) == [panic |-> FALSE, parser |-> q,
                               ret |-> Some(q.current_state)]
             IN  CHOOSE x \in {result(q) :
                     q \in {detect_state([p EXCEPT !.buffer = kept], output)}} : TRUE

\* Variant of ClaudeStateParser::parse: nothing is drained from the buffer.
ClaudeStateParser_parse_unbounded(p, output) ==
    LET result(q) ==
            [panic |-> FALSE, parser |-> q,
             ret |-> IF q.current_state.state # p.current_state.state
                     THEN Some(q.current_state) ELSE None]
    IN  CHOOSE x \in {result(q) :
            q \in {detect_state([p EXCEPT !.buffer = p.buffer \o output], output)}} : TRUE

\* ClaudeStateParser::parse, as [panic, parser, ret]: String::drain panics
\* when the end of the drained range is not on a char boundary; ret is
\* Some(ClaudeStateInfo) when the state changed.
ClaudeStateParser_parse(p, output) ==
    LET pushed == p.buffer \o output
        drain_to == len(pushed) - BUFFER_WINDOW
        over == len(pushed) > BUFFER_WINDOW
    IN  IF over /\ ~is_char_boundary(pushed, drain_to)
        THEN [panic |-> TRUE, parser |-> p, ret |-> None]
        ELSE LET kept == IF over THEN SliceFrom(pushed, drain_to) ELSE pushed
                 result(q) ==
                     [panic |-> FALSE, parser |-> q,
                      ret |-> IF q.current_state.state # p.current_state.state
                              THEN Some(q.current_state) ELSE None]
             IN  CHOOSE x \in {result(q) :
                     q \in {detect_state([p EXCEPT !.buffer = kept], output)}} : TRUE

\* ------------------------------------------------ SemanticBlockParser

COLLAPSE_LINES == 10

\* SemanticBlockParser::new.  A BlockType is <<tag>> or <<tag, payload..>>;
\* a PartialBlock is [id, block_type, content] (start_time, the wall clock
\* at start_block, is left out: nothing reads it but the emitted timestamp).
SemanticBlockParser_new ==
    [current_block |-> None, block_counter |-> 0, buffer |-> <<>>,
     in_code_fence |-> FALSE, code_language |-> None]

\* std::mem::discriminant of a BlockType: the variant without its payload.
discriminant(block_type) == block_type[1]

Tool(name) == <<"Tool", name>>

\* Variant of detect_block_type: no tool rule, every line that is not blank
\* is Text.
detect_block_type_no_tools(line) ==
    IF trim(line) = <<>> THEN None ELSE Some(<<"Text">>)

\* SemanticBlockParser::detect_block_type: None for a blank line, else the
\* first rule that matches.
detect_block_type(line) ==
    LET trimmed == trim(line)
    IN  IF trimmed = <<>> THEN None
        ELSE IF \/ starts_with(trimmed, <<"R", "e", "a", "d", "(">>)
                \/ contains(trimmed, <<"U+00F0", "U+0178", "U+201C", "U+201E", " ",
                                       "R", "e", "a", "d", "(">>)
        THEN Some(Tool("Read"))
        ELSE IF \/ starts_with(trimmed, <<"E", "d", "i", "t", "(">>)
                \/ contains(trimmed, <<"U+00E2", "U+0153", "U+00EF", "U+00B8", " ",
                                       "E", "d", "i", "t", "(">>)
        THEN Some(Tool("Edit"))
        ELSE IF \/ starts_with(trimmed, <<"W", "r", "i", "t", "e", "(">>)
                \/ contains(trimmed, <<"U+00F0", "U+0178", "U+201C", " ",
                                       "W", "r", "i", "t", "e", "(">>)
        THEN Some(Tool("Write"))
        ELSE IF \/ starts_with(trimmed, <<"B", "a", "s", "h", "(">>)
                \/ contains(trimmed, <<"U+00F0", "U+0178", "U+2019", "U+00BB", " ",
                                       "B", "a", "s", "h", "(">>)
        THEN Some(Tool("Bash"))
        ELSE IF \/ starts_with(trimmed, <<"G", "l", "o", "b", "(">>)
                \/ starts_with(trimmed, <<"G", "r", "e", "p", "(">>)
        THEN Some(Tool(IF starts_with(trimmed, <<"G", "l", "o", "b">>)
                       THEN "Glob" ELSE "Grep"))
        ELSE IF \/ ends_with(trimmed, <<"?">>)
                \/ starts_with(trimmed, <<"D", "o", " ", "y", "o", "u", " ", "w", "a", "n", "t">>)
                \/ starts_with(trimmed, <<"W", "o", "u", "l", "d", " ", "y", "o", "u", " ",
                                          "l", "i", "k", "e">>)
                \/ starts_with(trimmed, <<"S", "h", "o", "u", "l", "d", " ", "I">>)
                \/ starts_with(trimmed, <<"M", "a", "y", " ", "I">>)
        THEN Some(<<"Question">>)
        ELSE IF \/ starts_with(trimmed, <<"E", "r", "r", "o", "r", ":">>)
                \/ starts_with(trimmed, <<"e", "r", "r", "o", "r", ":">>)
                \/ starts_with(trimmed, <<"F", "a", "i", "l", "e", "d", ":">>)
                \/ contains(trimmed, <<"U+00E2", "U+0153", "U+2014">>)
                \/ contains(trimmed, <<"U+00E2", "U+0152">>)
        THEN Some(<<"Error">>)
        ELSE IF \/ contains(trimmed, <<"U+00E2", "U+0153", "U+201C">>)
                \/ contains(trimmed, <<"U+00E2", "U+0153", "U+201D">>)
                \/ contains(trimmed, <<"U+00E2", "U+0153", "U+2026">>)
        THEN Some(<<"ToolOutput", "unknown", TRUE>>)
        ELSE IF \/ starts_with(trimmed, <<"+", "+", "+">>)
                \/ starts_with(trimmed, <<"-", "-", "-">>)
                \/ starts_with(trimmed, <<"@", "@">>)
                \/ starts_with(trimmed, <<"+">>) /\ ~starts_with(trimmed, <<"+", "+">>)
                \/ starts_with(trimmed, <<"-">>) /\ ~starts_with(trimmed, <<"-", "-">>)
        THEN Some(<<"Diff", None>>)
        ELSE IF starts_with(trimmed, <<"$">>) \/ starts_with(trimmed, <<">">>)
        THEN Some(<<"Command", trim(SubSeq(trimmed, 2, Len(trimmed)))>>)
        ELSE Some(<<"Text">>)

\* Variant of start_block: the counter is not advanced.
start_block_same_id(st, block_type) ==
    [st EXCEPT !.current_block = Some([id |-> st.block_counter + 1,
                                       block_type |-> block_type,
                                       content |-> <<>>])]

\* SemanticBlockParser::start_block
start_block(st, block_type) ==
    [st EXCEPT !.block_counter = st.block_counter + 1,
               !.current_block = Some([id |-> st.block_counter + 1,
                                       block_type |-> block_type,
                                       content |-> <<>>])]

\* SemanticBlockParser::finish_current_block, as [state, ret]: takes the
\* current block and returns it as a complete SemanticBlock.
finish_current_block(st) ==
    [state |-> [st EXCEPT !.current_block = None],
     ret |-> IF st.current_block = None THEN None
             ELSE LET partial == st.current_block[1]
                  IN  Some([id |-> partial.id,
                            block_type |-> partial.block_type,
                            content |-> partial.content,
                            complete |-> TRUE,
                            collapsed_default |->
                                /\ discriminant(partial.block_type) \in
                                     {"Code", "ToolOutput", "CommandOutput", "FileContent"}
                                /\ Len(lines(partial.content)) > COLLAPSE_LINES])]

\* Variant of flush: the block is returned and stays open.
flush_keeps_block(st) ==
    [state |-> st, ret |-> finish_current_block(st).ret]

\* SemanticBlockParser::flush
flush(st) == finish_current_block(st)

\* SemanticBlockParser::reset
reset(st) ==
    [st EXCEPT !.current_block = None, !.buffer = <<>>,
               !.in_code_fence = FALSE, !.code_language = None]

\* Variant of "add content": the line is pushed without a newline before
\* it.
push_line_glued(st, line) ==
    IF st.current_block = None THEN st
    ELSE LET block == st.current_block[1]
         IN  [st EXCEPT !.current_block =
                 Some([block EXCEPT !.content = block.content \o line])]

\* "Add content": the line is pushed to the current block, after a newline
\* when the block already has content; nothing happens without a block.
push_line(st, line) ==
    IF st.current_block = None THEN st
    ELSE LET block == st.current_block[1]
         IN  [st EXCEPT !.current_block =
                 Some([block EXCEPT !.content =
                          IF block.content # <<>>
                          THEN block.content \o <<LF>> \o line
                          ELSE line])]

\* The body of parse's loop for one line, as [state, out]: out is the block
\* this line finished, as an Option.
parse_line(st, line) ==
    LET fin == finish_current_block(st)
    IN  IF starts_with(trim(line), <<BQ, BQ, BQ>>)
        THEN IF st.in_code_fence
             THEN [state |-> [fin.state EXCEPT !.in_code_fence = FALSE,
                                               !.code_language = None],
                   out |-> fin.ret]
             ELSE LET lang_part == SubSeq(trim(line), 4, Len(trim(line)))
                      lang == IF lang_part = <<>> THEN None ELSE Some(lang_part)
                  IN  [state |-> start_block(
                                    [fin.state EXCEPT !.in_code_fence = TRUE,
                                                      !.code_language = lang],
                                    <<"Code", lang>>),
                       out |-> fin.ret]
        ELSE IF st.in_code_fence
        THEN [state |-> push_line(st, line), out |-> None]
        ELSE LET block_type == detect_block_type(line)
             IN  IF block_type = None
                 THEN [state |-> st, out |-> None]
                 ELSE LET should_finish ==
                              /\ st.current_block # None
                              /\ discriminant(st.current_block[1].block_type)
                                   # discriminant(block_type[1])
                          s1 == IF should_finish THEN fin.state ELSE st
                          s2 == IF s1.current_block = None
                                THEN start_block(s1, block_type[1]) ELSE s1
                      IN  [state |-> push_line(s2, line),
                           out |-> IF should_finish THEN fin.ret ELSE None]

\* What parse's loop has done so far is acc, [state, blocks, processed_len,
\* steps]: steps records, per line, the line, the fence mode and the open
\* block before it, the open block after it and what it finished (a record
\* of the run, not state of the parser).  parse_acc is acc after one more
\* line, on which parse_line returned r.
parse_acc(acc, line, r) ==
    [state |-> r.state,
     blocks |-> acc.blocks \o r.out,
     processed_len |-> acc.processed_len + len(line) + 1,
     steps |-> Append(acc.steps,
                  [line |-> line,
                   fence |-> acc.state.in_code_fence,
                   before |-> acc.state.current_block,
                   after |-> r.state.current_block,
                   out |-> r.out])]

\* parse's loop over the lines from the i-th on.
RECURSIVE parse_lines(_, _, _)
parse_lines(acc0, ls, i) ==
    IF i > Len(ls) THEN acc0
    ELSE CHOOSE x \in {parse_lines(parse_acc(acc, ls[i], r), ls, i + 1) :
                          acc \in {acc0}, r \in {parse_line(acc0.state, ls[i])}} : TRUE

\* The end of parse, "keep only unprocessed content in buffer", on what
\* the loop returned: the slice buffer[processed_len..] panics when
\* processed_len is inside a char.
parse_end(buffer, r) ==
    LET cut == r.processed_len > 0 /\ r.processed_len <= len(buffer)
    IN  IF cut /\ ~is_char_boundary(buffer, r.processed_len)
        THEN [panic |-> TRUE, parser |-> r.state, blocks |-> <<>>, steps |-> r.steps]
        ELSE [panic |-> FALSE,
              parser |-> IF cut
                         THEN [r.state EXCEPT !.buffer = SliceFrom(buffer, r.processed_len)]
                         ELSE r.state,
              blocks |-> r.blocks, steps |-> r.steps]

\* SemanticBlockParser::parse, as [panic, parser, blocks, steps].  On a
\* panic the blocks finished by this call are lost with the call.
SemanticBlockParser_parse(st, output) ==
    CHOOSE x \in
        {parse_end(buffer,
                   CHOOSE r \in {parse_lines([state |-> [st EXCEPT !.buffer = buffer],
                                              blocks |-> <<>>, processed_len |-> 0,
                                              steps |-> <<>>],
                                             ls, 1) : ls \in {lines(buffer)}} : TRUE) :
            buffer \in {st.buffer \o strip_ansi_codes(output)}} : TRUE

\* ------------------------------------------------------------- bounds

\* Session ids the commands are called with.
Ids == {"a", "b"}

\* Children (successful spawn_command calls) over a run.
MaxSpawns == 2

\* Chunks the children output over a run, per specification.
MaxReads == 1
MaxReadsReader == 3
MaxReadsClassifier == 2

\* Command calls over a run.
MaxCalls == 3

\* Calls on the segmenter taken by itself, and the length of the strings
\* the escape sequences are stripped from.
MaxSegCalls == 4
MaxAnsiLen == 4

Gens == 1..MaxSpawns

\* The size a session is spawned with, and the sizes it is resized to.
SpawnSize == <<80, 24>>
Sizes == {<<120, 40>>}

WriteData == {<<"l", "s", LF>>}

\* The chunks (decoded text of one read) a child's output is made of.
c_read == <<"R", "e", "a", "d", "(", "x", ")">>
c_edit == <<"E", "d", "i", "t", "(", "y", ")", LF>>
c_nl == <<LF>>
c_question == <<"a", "b", "c", "d", "e", "?">>
c_text == <<"o", "k", LF>>
c_fence == <<BQ, BQ, BQ, "r", "s", LF>>
c_crlf == <<CR, LF, CR, LF, "U+00E9", CR, LF>>
c_spinner == <<"U+280B">>
c_prompt == <<">", " ">>
c_long == [i \in 1..(WRITING_MIN_LEN + 1) |-> "w"]

ReaderChunks == {c_read, c_edit, c_nl, c_question, c_text, c_fence, c_crlf,
                 c_spinner, c_prompt, c_long}

RegistryChunks == {c_text, c_crlf}

\* Chunks for the classifier: some match several detectors at once, c_fill
\* (one byte short of the buffer window) makes the buffer overflow.
c_tool_spin == <<"U+280B", "L", "S", "(">>
c_spin_done == <<"U+280B", "D", "o", "n", "e">>
c_should == <<"S", "h", "o", "u", "l", "d", " ", "I", LF>>
c_done_err == <<"D", "o", "n", "e", " ", "e", "r", "r", "o", "r", ":">>
c_red_long == <<ESC, "[", "3", "1", "m">> \o c_long
c_wide == [i \in 1..((WRITING_MIN_LEN \div 2) + 1) |-> "U+00E9"]
c_dollar == <<"$", " ">>
c_fill == [i \in 1..(BUFFER_WINDOW - 1) |-> "w"]

c_can == <<"C", "a", "n", " ", "I", LF>>

ClassifierChunks == {c_read, c_tool_spin, c_spin_done, c_should, c_can,
                     c_done_err, c_red_long, c_wide, c_dollar, c_prompt, c_nl,
                     c_fill}

\* Chunks for the segmenter taken by itself: fence lines, lines with and
\* without their line end, a CRLF line.
c_close == <<BQ, BQ, BQ, LF>>
c_readln == c_read \o c_nl
c_ok_crlf == <<"o", "k", CR, LF>>

SegChunks == {c_fence, c_close, c_nl, c_text, c_read, c_readln, c_edit,
              c_ok_crlf, c_can}

\* The characters the strings given to strip_ansi_codes are made of.
AnsiChars == {ESC, "[", "m", "1", "U+00E9"}

\* --------------------------------------------------------------- state

VARIABLES
    ptys,       \* PtyManager.ptys: id -> None, or Some(g), the PtyInstance
                \* holding the master, child and writer of spawn number g
    lock,       \* PTY_MANAGER's mutex: None, or Some of the write call that
                \* holds it while blocked in write_all
    nspawn,     \* children spawned so far; they are numbered 1..nspawn
    child,      \* g -> "none", "running", "exited" (by itself) or "killed"
    pipe,       \* g -> the output of child g the reader has not read yet
    produced,   \* chunks the children have output so far, all together
    io,         \* g -> [written, size]: writes done on, and size of, pty g
    reader,     \* g -> the reader thread of spawn g
    emitted,    \* the app.emit calls so far, in order
    ret,        \* [n, op, id, found, result]: the n-th command call, whether
                \* it found id registered, and its result
    seg,        \* a SemanticBlockParser taken by itself, with the calls made
                \* on it
    ansi        \* a string, and what strip_ansi_codes made of it

vars == <<ptys, lock, nspawn, child, pipe, produced, io, reader, emitted, ret,
          seg, ansi>>

\* No reader thread (spawn g did not happen or failed before thread::spawn).
NoReader ==
    [pc |-> "none", id |-> "", claude_parser |-> ClaudeStateParser_new,
     semantic_parser |-> SemanticBlockParser_new, readlog |-> <<>>,
     last |-> None]

\* The reader thread as thread::spawn starts it: both parsers new.  readlog
\* (the chunks read so far) and last (what the last pass of the loop saw and
\* got back from the parsers, claude_before being the classifier as the pass
\* found it) record the run; the thread does not read them.
NewReader(id) == [NoReader EXCEPT !.pc = "loop", !.id = id]

\* A SemanticBlockParser as SemanticBlockParser::new returns it.  calls (the
\* calls made so far, as <<name, argument>>), out (the blocks they returned,
\* in order) and last (the parser before the last call, what that call
\* returned and the lines its loop went through) record the run; the
\* parser does not read them.
NewSegmenter ==
    [parser |-> SemanticBlockParser_new, panicked |-> FALSE,
     calls |-> <<>>, out |-> <<>>, last |-> None]

Init ==
    /\ ptys = [id \in Ids |-> None]
    /\ lock = None
    /\ nspawn = 0
    /\ child = [g \in Gens |-> "none"]
    /\ pipe = [g \in Gens |-> None]
    /\ produced = 0
    /\ io = [g \in Gens |-> [written |-> 0, size |-> <<0, 0>>]]
    /\ reader = [g \in Gens |-> NoReader]
    /\ emitted = <<>>
    /\ ret = [n |-> 0, op |-> "", id |-> "", found |-> FALSE, result |-> ""]
    /\ seg = NewSegmenter
    /\ ansi = [input |-> <<>>, once |-> None, twice |-> None]

Returns(op, id, result) ==
    ret' = [n |-> ret.n + 1, op |-> op, id |-> id, found |-> ptys[id] # None,
            result |-> result]

\* ------------------------------------------------------- reader thread

Event(name, id, payload, g, n) ==
    [name |-> name, id |-> id, payload |-> payload, by |-> g, chunk |-> n]

\* Variant of chunk_events: the raw output emitted first.
chunk_events_raw_first(state_events, block_events, raw_event) ==
    raw_event \o state_events \o block_events

\* The app.emit calls of one pass of the loop, in the order the loop body
\* makes them: the state change, the blocks, the raw output.
chunk_events(state_events, block_events, raw_event) ==
    state_events \o block_events \o raw_event

\* One pass of the reader loop on the chunk data, as [reader, events], c
\* and s being what claude_parser.parse and semantic_parser.parse do on it.
\* A panic of a parser ends the thread where it stands: what was emitted
\* before stays emitted, nothing after it happens.
reader_pass_on(r, g, data, c, s) ==
    LET n == Len(r.readlog) + 1
        state_events ==
            IF c.ret = None THEN <<>>
            ELSE <<Event("claude-state", r.id, c.ret[1], g, n)>>
        block_events ==
            [i \in 1..Len(s.blocks) |->
                Event("semantic-block", r.id, s.blocks[i], g, n)]
        raw_event == <<Event("pty-output", r.id, data, g, n)>>
        log == Append(r.readlog, data)
    IN  IF c.panic
        THEN [reader |-> [r EXCEPT !.pc = "panicked", !.readlog = log,
                                   !.last = None],
              events |-> <<>>]
        ELSE IF s.panic
        THEN [reader |-> [r EXCEPT !.pc = "panicked", !.readlog = log,
                                   !.claude_parser = c.parser,
                                   !.semantic_parser = s.parser,
                                   !.last = None],
              events |-> state_events]
        ELSE [reader |-> [r EXCEPT !.readlog = log,
                                   !.claude_parser = c.parser,
                                   !.semantic_parser = s.parser,
                                   !.last = Some([data |-> data,
                                                  claude_before |-> r.claude_parser,
                                                  state_before |-> r.claude_parser.current_state.state,
                                                  state_ret |-> c.ret,
                                                  seen |-> r.semantic_parser.buffer
                                                             \o strip_ansi_codes(data),
                                                  steps |-> s.steps,
                                                  blocks |-> s.blocks])],
              events |-> chunk_events(state_events, block_events, raw_event)]

reader_pass(r, g, data) ==
    CHOOSE x \in {reader_pass_on(r, g, data, c, s) :
                     c \in {ClaudeStateParser_parse(r.claude_parser, data)},
                     s \in {SemanticBlockParser_parse(r.semantic_parser, data)}} : TRUE

\* reader.read returns Ok(n), n > 0: one pass of the loop.
ReaderChunk(g) ==
    /\ reader[g].pc = "loop"
    /\ pipe[g] # None
    /\ \E p \in {reader_pass(reader[g], g, pipe[g][1])} :
           /\ reader' = [reader EXCEPT ![g] = p.reader]
           /\ emitted' = emitted \o p.events
    /\ pipe' = [pipe EXCEPT ![g] = None]
    /\ UNCHANGED <<ptys, lock, nspawn, child, produced, io, ret, seg, ansi>>

\* What the thread does after the loop: flush, emit the pending block, emit
\* the exit event.
reader_end(r, g) ==
    LET f == flush(r.semantic_parser)
    IN  [reader |-> [r EXCEPT !.pc = "done", !.semantic_parser = f.state],
         events |-> (IF f.ret = None THEN <<>>
                     ELSE <<Event("semantic-block", r.id, f.ret[1], g, 0)>>)
                    \o <<Event("pty-exit", r.id, None, g, 0)>>]

\* reader.read returns Ok(0) or Err: the child is gone and its output read.
ReaderEnd(g) ==
    /\ reader[g].pc = "loop"
    /\ pipe[g] = None
    /\ child[g] \in {"exited", "killed"}
    /\ \E e \in {reader_end(reader[g], g)} :
           /\ reader' = [reader EXCEPT ![g] = e.reader]
           /\ emitted' = emitted \o e.events
    /\ UNCHANGED <<ptys, lock, nspawn, child, pipe, produced, io, ret, seg, ansi>>

\* ------------------------------------------------------------- children

\* Child g outputs a chunk: the next read of its reader returns it.
ChildOutput(g, data, max) ==
    /\ child[g] = "running"
    /\ pipe[g] = None
    /\ produced < max
    /\ pipe' = [pipe EXCEPT ![g] = Some(data)]
    /\ produced' = produced + 1
    /\ UNCHANGED <<ptys, lock, nspawn, child, io, reader, emitted, ret, seg, ansi>>

\* Child g exits by itself.
ChildExit(g) ==
    /\ child[g] = "running"
    /\ child' = [child EXCEPT ![g] = "exited"]
    /\ UNCHANGED <<ptys, lock, nspawn, pipe, produced, io, reader, emitted, ret, seg, ansi>>

\* ------------------------------------------------------------- commands
\* Each command takes PTY_MANAGER's mutex for the whole call (commands/
\* pty.rs), so a call is one step, except a write that blocks in write_all:
\* it keeps the mutex until the write goes on.

SpawnFailures == {"Failed to open PTY", "Failed to spawn shell",
                  "Failed to get writer", "Failed to clone reader"}

\* Variant of pty_spawn: a spawn that fails after spawn_command leaves an
\* entry for its child behind.
pty_spawn_keeps_failed(id, size, fail, max) ==
    /\ lock = None
    /\ ret.n < MaxCalls
    /\ IF fail \in {"Failed to open PTY", "Failed to spawn shell"}
       THEN UNCHANGED <<ptys, nspawn, child, io, reader>>
       ELSE /\ nspawn < max
            /\ nspawn' = nspawn + 1
            /\ child' = [child EXCEPT ![nspawn + 1] = "running"]
            /\ io' = [io EXCEPT ![nspawn + 1].size = size]
            /\ ptys' = [ptys EXCEPT ![id] = Some(nspawn + 1)]
            /\ IF fail = "Ok"
               THEN reader' = [reader EXCEPT ![nspawn + 1] = NewReader(id)]
               ELSE UNCHANGED reader
    /\ Returns("spawn", id, fail)
    /\ UNCHANGED <<lock, pipe, produced, emitted, seg, ansi>>

\* pty_spawn / PtyManager::spawn.  With fail = "Ok" the call goes through:
\* child nspawn + 1 runs, its reader thread is started and the instance is
\* inserted under id, replacing (and dropping, not killing) an instance
\* already there.  A failure of take_writer or try_clone_reader comes after
\* spawn_command: the child runs, unregistered and without a reader.
pty_spawn(id, size, fail, max) ==
    /\ lock = None
    /\ ret.n < MaxCalls
    /\ IF fail \in {"Failed to open PTY", "Failed to spawn shell"}
       THEN UNCHANGED <<ptys, nspawn, child, io, reader>>
       ELSE /\ nspawn < max
            /\ nspawn' = nspawn + 1
            /\ child' = [child EXCEPT ![nspawn + 1] = "running"]
            /\ io' = [io EXCEPT ![nspawn + 1].size = size]
            /\ IF fail = "Ok"
               THEN /\ reader' = [reader EXCEPT ![nspawn + 1] = NewReader(id)]
                    /\ ptys' = [ptys EXCEPT ![id] = Some(nspawn + 1)]
               ELSE UNCHANGED <<ptys, reader>>
    /\ Returns("spawn", id, fail)
    /\ UNCHANGED <<lock, pipe, produced, emitted, seg, ansi>>

\* What PtyManager::write does once it has the instance g: write_all, then
\* flush; a flush that fails comes after a write that went through.
write_io(g, outcome) ==
    IF outcome = "Failed to write" THEN io
    ELSE [io EXCEPT ![g].written = io[g].written + 1]

\* pty_write / PtyManager::write.  outcome "block": write_all blocks (the
\* child does not drain its input), the call does not return yet.
pty_write(id, data, outcome) ==
    /\ lock = None
    /\ ret.n < MaxCalls
    /\ IF ptys[id] = None
       THEN /\ Returns("write", id, "PTY not found")
            /\ UNCHANGED <<lock, io>>
       ELSE IF outcome = "block"
       THEN /\ lock' = Some([id |-> id, g |-> ptys[id][1]])
            /\ UNCHANGED <<io, ret>>
       ELSE /\ io' = write_io(ptys[id][1], outcome)
            /\ Returns("write", id, outcome)
            /\ UNCHANGED lock
    /\ UNCHANGED <<ptys, nspawn, child, pipe, produced, reader, emitted, seg, ansi>>

\* The blocked write goes on (the child drained its input, or is gone) and
\* the call returns, releasing the mutex.
pty_write_resume(outcome) ==
    /\ lock # None
    /\ io' = write_io(lock[1].g, outcome)
    /\ Returns("write", lock[1].id, outcome)
    /\ lock' = None
    /\ UNCHANGED <<ptys, nspawn, child, pipe, produced, reader, emitted, seg, ansi>>

\* Variant of pty_resize: an id that is not there is no error, as in kill.
pty_resize_lenient(id, size, outcome) ==
    /\ lock = None
    /\ ret.n < MaxCalls
    /\ IF ptys[id] = None
       THEN /\ Returns("resize", id, "Ok")
            /\ UNCHANGED io
       ELSE /\ io' = IF outcome = "Ok"
                     THEN [io EXCEPT ![ptys[id][1]].size = size] ELSE io
            /\ Returns("resize", id, outcome)
    /\ UNCHANGED <<ptys, lock, nspawn, child, pipe, produced, reader, emitted, seg, ansi>>

\* pty_resize / PtyManager::resize
pty_resize(id, size, outcome) ==
    /\ lock = None
    /\ ret.n < MaxCalls
    /\ IF ptys[id] = None
       THEN /\ Returns("resize", id, "PTY not found")
            /\ UNCHANGED io
       ELSE /\ io' = IF outcome = "Ok"
                     THEN [io EXCEPT ![ptys[id][1]].size = size] ELSE io
            /\ Returns("resize", id, outcome)
    /\ UNCHANGED <<ptys, lock, nspawn, child, pipe, produced, reader, emitted, seg, ansi>>

\* Variant of kill: the child is killed, the entry stays.
kill_keep_entry(id) ==
    IF ptys[id] = None THEN [ptys |-> ptys, child |-> child]
    ELSE [ptys |-> ptys,
          child |-> [child EXCEPT ![ptys[id][1]] =
                        IF @ = "running" THEN "killed" ELSE @]]

\* PtyManager::kill, as [ptys, child]: the entry is removed and its child
\* killed (a child that has exited stays so); nothing happens for an id
\* that is not there.
kill(id) ==
    IF ptys[id] = None THEN [ptys |-> ptys, child |-> child]
    ELSE [ptys |-> [ptys EXCEPT ![id] = None],
          child |-> [child EXCEPT ![ptys[id][1]] =
                        IF @ = "running" THEN "killed" ELSE @]]

\* pty_kill: the result of child.kill() is dropped, the call returns Ok.
pty_kill(id) ==
    /\ lock = None
    /\ ret.n < MaxCalls
    /\ ptys' = kill(id).ptys
    /\ child' = kill(id).child
    /\ Returns("kill", id, "Ok")
    /\ UNCHANGED <<lock, nspawn, pipe, produced, io, reader, emitted, seg, ansi>>

\* -------------------------------------------- the parsers by themselves

\* A call of SemanticBlockParser::parse on the segmenter.  A call that
\* panics leaves nothing to call.
Parse(data) ==
    /\ ~seg.panicked
    /\ Len(seg.calls) < MaxSegCalls
    /\ \E r \in {SemanticBlockParser_parse(seg.parser, data)} :
           seg' = [parser |-> r.parser,
                   panicked |-> r.panic,
                   calls |-> Append(seg.calls, <<"parse", data>>),
                   out |-> seg.out \o r.blocks,
                   last |-> Some([before |-> seg.parser, ret |-> r.blocks,
                                  steps |-> r.steps])]
    /\ UNCHANGED <<ptys, lock, nspawn, child, pipe, produced, io, reader, emitted,
                 ret, ansi>>

\* A call of SemanticBlockParser::flush on the segmenter.
Flush ==
    /\ ~seg.panicked
    /\ Len(seg.calls) < MaxSegCalls
    /\ \E f \in {flush(seg.parser)} :
           seg' = [seg EXCEPT !.parser = f.state,
                              !.calls = Append(seg.calls, <<"flush", <<>> >>),
                              !.out = seg.out \o f.ret,
                              !.last = Some([before |-> seg.parser, ret |-> f.ret,
                                             steps |-> <<>>])]
    /\ UNCHANGED <<ptys, lock, nspawn, child, pipe, produced, io, reader, emitted,
                 ret, ansi>>

\* A call of SemanticBlockParser::reset on the segmenter.
Reset ==
    /\ ~seg.panicked
    /\ Len(seg.calls) < MaxSegCalls
    /\ seg' = [seg EXCEPT !.parser = reset(seg.parser),
                          !.calls = Append(seg.calls, <<"reset", <<>> >>),
                          !.last = Some([before |-> seg.parser, ret |-> <<>>,
                                         steps |-> <<>>])]
    /\ UNCHANGED <<ptys, lock, nspawn, child, pipe, produced, io, reader, emitted,
                 ret, ansi>>

\* The string to strip grows by one character.
AnsiInput(c) ==
    /\ Len(ansi.input) < MaxAnsiLen
    /\ ansi' = [input |-> Append(ansi.input, c), once |-> None, twice |-> None]
    /\ UNCHANGED <<ptys, lock, nspawn, child, pipe, produced, io, reader, emitted,
                 ret, seg>>

\* strip_ansi_codes is called on the string, and again on what it returned.
AnsiStrip ==
    /\ ansi.once = None
    /\ \E once \in {strip_ansi_codes(ansi.input)} :
           ansi' = [ansi EXCEPT !.once = Some(once),
                               !.twice = Some(strip_ansi_codes(once))]
    /\ UNCHANGED <<ptys, lock, nspawn, child, pipe, produced, io, reader, emitted,
                 ret, seg>>

\* ------------------------------------------------------- specifications

\* The registry with its sessions: every command on every id, children
\* that output a few chunks.
Next ==
    \/ \E id \in Ids, fail \in SpawnFailures \cup {"Ok"} :
          pty_spawn(id, SpawnSize, fail, MaxSpawns)
    \/ \E id \in Ids, data \in WriteData,
          outcome \in {"Ok", "Failed to write", "Failed to flush", "block"} :
          pty_write(id, data, outcome)
    \/ \E outcome \in {"Ok", "Failed to write", "Failed to flush"} :
          pty_write_resume(outcome)
    \/ \E id \in Ids, size \in Sizes, outcome \in {"Ok", "Failed to resize"} :
          pty_resize(id, size, outcome)
    \/ \E id \in Ids : pty_kill(id)
    \/ \E g \in Gens, data \in RegistryChunks : ChildOutput(g, data, MaxReads)
    \/ \E g \in Gens : ChildExit(g)
    \/ \E g \in Gens : ReaderChunk(g)
    \/ \E g \in Gens : ReaderEnd(g)

Spec == Init /\ [][Next]_vars

\* One session, spawned once, and its reader thread, on every sequence of
\* chunks.
NextReader ==
    \/ pty_spawn("a", SpawnSize, "Ok", 1)
    \/ pty_kill("a")
    \/ \E g \in Gens, data \in ReaderChunks : ChildOutput(g, data, MaxReadsReader)
    \/ \E g \in Gens : ChildExit(g)
    \/ \E g \in Gens : ReaderChunk(g)
    \/ \E g \in Gens : ReaderEnd(g)

SpecReader == Init /\ [][NextReader]_vars

\* One session whose output exercises the state classifier.
NextClassifier ==
    \/ pty_spawn("a", SpawnSize, "Ok", 1)
    \/ \E g \in Gens, data \in ClassifierChunks :
          ChildOutput(g, data, MaxReadsClassifier)
    \/ \E g \in Gens : ChildExit(g)
    \/ \E g \in Gens : ReaderChunk(g)
    \/ \E g \in Gens : ReaderEnd(g)

SpecClassifier == Init /\ [][NextClassifier]_vars

\* The segmenter by itself: any calls of parse, flush and reset.
NextSegmenter ==
    \/ \E data \in SegChunks : Parse(data)
    \/ Flush
    \/ Reset

SpecSegmenter == Init /\ [][NextSegmenter]_vars

\* strip_ansi_codes on every string of at most MaxAnsiLen characters.
NextAnsi ==
    \/ \E c \in AnsiChars : AnsiInput(c)
    \/ AnsiStrip

SpecAnsi == Init /\ [][NextAnsi]_vars

\* ---------------------------------------------------------------- claims

\* The events reader thread g emitted, in order.
EventsBy(g) ==
    LET by_g(e) == e.by = g IN SelectSeq(emitted, by_g)

\* Those of them on one channel.
NamedBy(g, name) ==
    LET named(e) == e.by = g /\ e.name = name IN SelectSeq(emitted, named)

Terminated(g) == reader[g].pc \in {"done", "panicked"}

Rank(e) ==
    CASE e.name = "claude-state" -> 1
      [] e.name = "semantic-block" -> 2
      [] e.name = "pty-output" -> 3
      [] e.name = "pty-exit" -> 4

C2_RawPerChunk ==
    \A g \in Gens :
        LET raw == NamedBy(g, "pty-output")
        IN  /\ Len(raw) = Len(reader[g].readlog)
            /\ \A n \in 1..Len(raw) : raw[n].payload = reader[g].readlog[n]

\* C3: a reader thread that has ended emitted exactly one exit event, and
\* it is the last event it emitted.
C3_ExitOnce ==
    \A g \in Gens :
        Terminated(g)
        => /\ Len(NamedBy(g, "pty-exit")) = 1
           /\ EventsBy(g)[Len(EventsBy(g))].name = "pty-exit"

\* C4, as claimed (its last part): a chunk identical to the one classified
\* right before it emits no state change.
C4_RepeatSilent ==
    \A g \in Gens :
        LET log == reader[g].readlog
            n == Len(log)
        IN  reader[g].last # None /\ n >= 2 /\ log[n] = log[n - 1]
            => reader[g].last[1].state_ret = None

\* C4, amended: parse returns a state change iff the state it computed
\* differs from the state held before the call, and then returns the
\* current state; so no two consecutive state-change events of a reader
\* carry the same state, and the first one does not carry the initial Idle.
C4_ChangeOnly ==
    \A g \in Gens :
        LET cur == reader[g].claude_parser.current_state
            ev == NamedBy(g, "claude-state")
        IN  /\ reader[g].last # None
               => /\ reader[g].last[1].state_ret # None
                     <=> cur.state # reader[g].last[1].state_before
                  /\ reader[g].last[1].state_ret # None
                     => reader[g].last[1].state_ret = Some(cur)
            /\ ev # <<>> => ev[1].payload.state # ClaudeStateInfo_default.state
            /\ \A i \in 1..(Len(ev) - 1) : ev[i].payload.state # ev[i + 1].payload.state

\* Two state changes were emitted and the last chunk, classified to the
\* state it found, emitted none.
C4_Witness ==
    \E g \in Gens :
        /\ Len(NamedBy(g, "claude-state")) >= 2
        /\ reader[g].last # None
        /\ reader[g].last[1].state_ret = None

\* C5: the ids of the blocks a reader thread emitted start at 1 and are
\* strictly increasing.
C5_BlockIds ==
    \A g \in Gens :
        LET blocks == NamedBy(g, "semantic-block")
        IN  /\ blocks # <<>> => blocks[1].payload.id = 1
            /\ \A i \in 1..(Len(blocks) - 1) :
                   blocks[i].payload.id < blocks[i + 1].payload.id

\* A reader emitted blocks from parse calls and from the final flush.
C5_Witness ==
    \E g \in Gens :
        LET blocks == NamedBy(g, "semantic-block")
        IN  /\ Len(blocks) >= 3
            /\ blocks[Len(blocks)].chunk = 0
            /\ blocks[1].chunk > 0

\* C6: once a reader thread has ended, every block its segmenter started
\* (every id up to block_counter) was emitted exactly once.
C6_EmittedOnce ==
    \A g \in Gens :
        Terminated(g)
        => \A id \in 1..reader[g].semantic_parser.block_counter :
               Cardinality({i \in 1..Len(emitted) :
                               /\ emitted[i].by = g
                               /\ emitted[i].name = "semantic-block"
                               /\ emitted[i].payload.id = id}) = 1

\* C7: when what a parse call scanned ends in a line without newline, that
\* line (the last one of the loop) leaves the open block as it was and
\* finishes none.
C7_NoPartialLine ==
    \A g \in Gens :
        reader[g].last # None
        => LET seen == reader[g].last[1].seen
               steps == reader[g].last[1].steps
           IN  seen # <<>> /\ seen[Len(seen)] # LF
               => /\ steps[Len(steps)].after = steps[Len(steps)].before
                  /\ steps[Len(steps)].out = None

\* The tool a line invokes by the prefixes C8 is about, "" when none.
C8_ToolOf(line) ==
    LET t == trim(line)
    IN  IF starts_with(t, <<"R", "e", "a", "d", "(">>) THEN "Read"
        ELSE IF starts_with(t, <<"E", "d", "i", "t", "(">>) THEN "Edit"
        ELSE IF starts_with(t, <<"W", "r", "i", "t", "e", "(">>) THEN "Write"
        ELSE IF starts_with(t, <<"B", "a", "s", "h", "(">>) THEN "Bash"
        ELSE IF starts_with(t, <<"G", "l", "o", "b", "(">>) THEN "Glob"
        ELSE IF starts_with(t, <<"G", "r", "e", "p", "(">>) THEN "Grep"
        ELSE ""

\* The ANSI-stripped output a reader read, the chunks put together.
RECURSIVE C8_Joined(_, _)
C8_Joined(log, n) ==
    IF n = 0 THEN <<>> ELSE C8_Joined(log, n - 1) \o strip_ansi_codes(log[n])

C9_KillIdempotent ==
    [][ret'.n # ret.n /\ ret'.op = "kill"
       => /\ ret'.result = "Ok"
          /\ ptys'[ret'.id] = None
          /\ \A other \in Ids \ {ret'.id} : ptys'[other] = ptys[other]
          /\ ptys[ret'.id] # None
             => /\ child'[ptys[ret'.id][1]] \in {"killed", "exited"}
                /\ \A g \in Gens \ {ptys[ret'.id][1]} : child'[g] = child[g]
          /\ ptys[ret'.id] = None => ptys' = ptys /\ child' = child
          /\ UNCHANGED <<lock, io, reader, emitted>>]_vars

\* A kill of an id that was not registered any more: an earlier kill had
\* removed its session and killed the child.
C9_Witness ==
    /\ ret.op = "kill"
    /\ ~ret.found
    /\ ret.result = "Ok"
    /\ ptys[ret.id] = None
    /\ \E g \in Gens : reader[g].id = ret.id /\ child[g] = "killed"

\* C10: a write or resize call on an id that is not registered returns
\* "PTY not found" and touches no pty: nothing is written, no size changes.
C10_NotFound ==
    [][/\ ret'.n # ret.n
       /\ ret'.op \in {"write", "resize"}
       /\ ptys[ret'.id] = None
       => /\ ~ret'.found
          /\ ret'.result = "PTY not found"
          /\ UNCHANGED <<io, ptys, child, lock>>]_vars

\* A write or resize was refused on the id of a session that was killed.
C10_Witness ==
    /\ ret.op \in {"write", "resize"}
    /\ ~ret.found
    /\ ret.result = "PTY not found"
    /\ \E g \in Gens : reader[g].id = ret.id /\ child[g] = "killed"

\* C11: a spawn, write or resize call that returns an error leaves the
\* registry as it was and starts no reader thread, and it has released the
\* mutex; a write or resize that fails in its I/O found its session and
\* leaves it registered.
C11_ErrorKeepsRegistry ==
    [][/\ ret'.n # ret.n
       /\ ret'.op \in {"spawn", "write", "resize"}
       /\ ret'.result # "Ok"
       => /\ ptys' = ptys
          /\ reader' = reader
          /\ lock' = None
          /\ ret'.result \in {"Failed to write", "Failed to flush", "Failed to resize"}
             => ret'.found /\ ptys'[ret'.id] # None]_vars

\* A write on a registered session failed in its I/O: the session is still
\* registered, its child runs.
C11_Witness ==
    /\ ret.op = "write"
    /\ ret.result \in {"Failed to write", "Failed to flush"}
    /\ ret.found
    /\ ptys[ret.id] # None
    /\ child[ptys[ret.id][1]] = "running"

\* C12: while a write on one session is blocked in its I/O, the commands on
\* every other id can complete: a kill, a resize, a write and a spawn of
\* that id can each take their step.
C12_OthersProceed ==
    \A id \in Ids :
        lock # None /\ lock[1].id # id /\ ret.n < MaxCalls
        => /\ ENABLED pty_kill(id)
           /\ ENABLED pty_resize(id, SpawnSize, "Ok")
           /\ ENABLED pty_write(id, <<"l", "s", LF>>, "Ok")
           /\ ENABLED pty_spawn(id, SpawnSize, "Failed to open PTY", MaxSpawns)

\* The sessions of id that are live: the child runs and the reader thread
\* is in its loop, emitting on the channels of id.
C13_Live(id) ==
    {g \in Gens : reader[g].id = id /\ reader[g].pc = "loop" /\ child[g] = "running"}

\* C13: at most one session is live per id at any time.
C13_OneLivePerId ==
    \A id \in Ids : Cardinality(C13_Live(id)) <= 1

\* C14: once the reader thread of a session whose child exited by itself
\* has emitted the exit event, the session is not registered any more.
C14_ExitUnregisters ==
    \A g \in Gens :
        /\ child[g] = "exited"
        /\ reader[g].pc = "done"
        /\ NamedBy(g, "pty-exit") # <<>>
        => ptys[reader[g].id] # Some(g)

\* C15: the reader thread of a session whose child a kill has terminated
\* emits its exit event in the end: as long as it has not emitted it, the
\* thread is still in its loop, where its next read returns the output left
\* or the end of the stream.
C15_KilledEmitsExit ==
    \A g \in Gens :
        child[g] = "killed" /\ reader[g].pc # "none"
        => \/ NamedBy(g, "pty-exit") # <<>>
           \/ reader[g].pc = "loop"

\* C16: once a spawn of an id has returned, the reader threads of the
\* earlier sessions of that id emit nothing more: no step appends to the
\* emitted events one of a reader thread for whose id a later session has
\* already been spawned.
C16_NoStaleEvents ==
    [][\A i \in (Len(emitted) + 1)..Len(emitted') :
           ~\E later \in Gens :
               /\ later > emitted'[i].by
               /\ reader[later].pc # "none"
               /\ reader[later].id = emitted'[i].id]_vars

\* C17: no parse call panics: no reader thread ends inside its loop.
C17_NoPanic ==
    \A g \in Gens : reader[g].pc # "panicked"

\* The state the detectors 1-6 give for the chunk out with the buffer buf,
\* taken in the order of precedence, the sixth measuring the chunk without
\* its escape sequences in bytes or in characters; <<"None">> when none of
\* them matches.
C18_Detected(out, buf, unit) ==
    CHOOSE want \in
        {(IF detect_tool_use(co) # None THEN <<"ToolUse", detect_tool_use(co)[1]>>
          ELSE IF thinking_marker(co) THEN <<"Thinking">>
          ELSE IF detect_question(cb) # None THEN <<"Asking">>
          ELSE IF complete_marker(co) THEN <<"Complete">>
          ELSE IF error_marker(out, co) THEN <<"Error">>
          ELSE IF /\ (IF unit = "bytes" THEN len(co) ELSE Len(co)) > WRITING_MIN_LEN
                  /\ \E i \in 1..Len(co) : co[i] \notin White
               THEN <<"Writing">>
          ELSE <<"None">>) :
             co \in {strip_ansi_codes(out)}, cb \in {strip_ansi_codes(buf)}} : TRUE

C18_Precedence(unit) ==
    \A g \in Gens :
        reader[g].last # None =>
            \E want \in {C18_Detected(reader[g].last[1].data,
                                      reader[g].claude_parser.buffer, unit)} :
                LET state == reader[g].claude_parser.current_state.state
                IN  IF want # <<"None">>
                    THEN state = want
                    ELSE state \in {<<"Idle">>, reader[g].last[1].state_before}

\* C18 (as claimed): after every chunk the state is that of the first of the
\* detectors tool, thinking, question, completion, error, writing that
\* matches, writing being more than 50 visible characters; when none
\* matches the state is Idle or what it was.
C18_FirstMatch ==
    C18_Precedence("chars")

\* C18 (amended): the same with the writing detector measuring the chunk,
\* its escape sequences removed, in bytes: more than 50 bytes, not all of
\* them whitespace.
C18_FirstMatchBytes ==
    C18_Precedence("bytes")

\* After ToolUse(Read), a chunk with both a spinner and a completion marker
\* has given Thinking.
C18_Witness ==
    \E g \in Gens :
        /\ reader[g].last # None
        /\ reader[g].last[1].data = c_spin_done
        /\ complete_marker(c_spin_done)
        /\ reader[g].last[1].state_before = <<"ToolUse", "Read">>
        /\ reader[g].claude_parser.current_state.state = <<"Thinking">>

\* The buffer ends in a shell prompt: ">", "$ " or "% ", whitespace after
\* the ">" not counting.
C19_EndsInPrompt(buf) ==
    \/ ends_with(trim_end(buf), <<">">>)
    \/ ends_with(buf, <<"$", " ">>)
    \/ ends_with(buf, <<"%", " ">>)

\* The last IDLE_NEWLINES + 1 chunks read were all made of line ends only.
C19_BlankRun(log) ==
    /\ Len(log) > IDLE_NEWLINES
    /\ \A k \in (Len(log) - IDLE_NEWLINES)..Len(log) :
           \A i \in 1..Len(log[k]) : log[k][i] \in {LF, CR}

\* C19: after a chunk that matches none of the detectors 1-6, the state is
\* Idle, awaiting input, with no tool name and no question, when the
\* buffer ends in a shell prompt or the last four chunks were blank; it is
\* what it was before the chunk otherwise.
C19_IdleRule ==
    \A g \in Gens :
        reader[g].last # None =>
            \A cb \in {strip_ansi_codes(reader[g].claude_parser.buffer)} :
                C18_Detected(reader[g].last[1].data,
                             reader[g].claude_parser.buffer, "bytes") = <<"None">>
                => LET now == reader[g].claude_parser.current_state
                       was == reader[g].last[1].claude_before.current_state
                   IN  IF C19_EndsInPrompt(cb) \/ C19_BlankRun(reader[g].readlog)
                       THEN /\ now.state = <<"Idle">>
                            /\ now.awaiting_input
                            /\ now.tool_name = None
                            /\ now.question = None
                       ELSE now = was

\* The first n chunks of log, one after the other.
RECURSIVE C20_Output(_, _)
C20_Output(log, n) ==
    IF n = 0 THEN <<>> ELSE C20_Output(log, n - 1) \o log[n]

\* The first n chunks of log without their escape sequences, one after the
\* other.
RECURSIVE C20_CleanOutput(_, _)
C20_CleanOutput(log, n) ==
    IF n = 0 THEN <<>>
    ELSE C20_CleanOutput(log, n - 1) \o strip_ansi_codes(log[n])

\* buf is the end of all, as much of it as the window holds.
C20_WindowOf(buf, all) ==
    /\ len(buf) = (IF len(all) > BUFFER_WINDOW THEN BUFFER_WINDOW ELSE len(all))
    /\ Len(buf) <= Len(all)
    /\ buf = SubSeq(all, Len(all) - Len(buf) + 1, Len(all))

\* C20 (as claimed): after every parse call the classifier's buffer is the
\* last 2048 bytes, or all if there are fewer, of the output so far with
\* its escape sequences removed.
C20_StrippedWindow ==
    \A g \in Gens :
        reader[g].pc \in {"loop", "done"} =>
            \A all \in {C20_CleanOutput(reader[g].readlog, Len(reader[g].readlog))} :
                C20_WindowOf(reader[g].claude_parser.buffer, all)

\* C20 (amended): after every parse call that returns, the classifier's
\* buffer is the last 2048 bytes, or all if there are fewer, of the output
\* so far as it was read, escape sequences included.
C20_RawWindow ==
    \A g \in Gens :
        reader[g].pc \in {"loop", "done"} =>
            \A all \in {C20_Output(reader[g].readlog, Len(reader[g].readlog))} :
                C20_WindowOf(reader[g].claude_parser.buffer, all)

\* More than 2048 bytes have been read and the buffer holds 2048 of them.
C20_Witness ==
    \E g \in Gens :
        /\ reader[g].pc = "loop"
        /\ len(C20_Output(reader[g].readlog, Len(reader[g].readlog))) > BUFFER_WINDOW
        /\ len(reader[g].claude_parser.buffer) = BUFFER_WINDOW
        /\ reader[g].claude_parser.buffer # reader[g].last[1].data

\* The chunks of the first n calls of the segmenter, one after the other.
RECURSIVE SegStream(_, _)
SegStream(calls, n) ==
    IF n = 0 THEN <<>> ELSE SegStream(calls, n - 1) \o calls[n][2]

\* Every call made on the segmenter was a parse call on whole lines ending
\* in LF.
SegWholeLines ==
    /\ ~seg.panicked
    /\ \A k \in 1..Len(seg.calls) :
           /\ seg.calls[k][1] = "parse"
           /\ seg.calls[k][2] # <<>>
           /\ seg.calls[k][2][Len(seg.calls[k][2])] = LF
           /\ CR \notin {seg.calls[k][2][i] : i \in 1..Len(seg.calls[k][2])}

C21_IsFence(line) == starts_with(trim(line), <<BQ, BQ, BQ>>)

\* The lines i..j of ls joined by newlines.
RECURSIVE C21_Join(_, _, _)
C21_Join(ls, i, j) ==
    IF i > j THEN <<>>
    ELSE IF i = j THEN ls[i]
    ELSE ls[i] \o <<LF>> \o C21_Join(ls, i + 1, j)

\* C21: a new segmenter that was given an opening fence line, lines that
\* are no fence lines and a closing fence line, in parse calls on whole
\* lines, has returned exactly one block: a Code block with the language
\* of the opening fence and the lines in between, joined by newlines, as
\* its content.
C21_FencedSection ==
    \A ls \in {lines(SegStream(seg.calls, Len(seg.calls)))} :
        /\ SegWholeLines
        /\ Len(ls) >= 2
        /\ C21_IsFence(ls[1])
        /\ C21_IsFence(ls[Len(ls)])
        /\ \A k \in 2..(Len(ls) - 1) : ~C21_IsFence(ls[k])
        => /\ Len(seg.out) = 1
           /\ seg.out[1].block_type =
                  <<"Code", IF Len(trim(ls[1])) = 3 THEN None
                            ELSE Some(SubSeq(trim(ls[1]), 4, Len(trim(ls[1])))) >>
           /\ seg.out[1].content = C21_Join(ls, 2, Len(ls) - 1)

\* C22: a line parse goes through outside a code fence, no fence line
\* itself: a blank line leaves the open block as it is and finishes none;
\* a line with the tag of the open block is appended to it after a
\* newline, the block keeps its id and type and none is finished; a line
\* with another tag finishes the open block, which is returned complete
\* and as it was, and starts a block of a larger id holding the line; with
\* no block open the line starts one.
C22_Continuity ==
    seg.last # None =>
        \A k \in 1..Len(seg.last[1].steps) :
            LET step == seg.last[1].steps[k]
                tag == detect_block_type(step.line)
            IN  ~step.fence /\ ~C21_IsFence(step.line)
                => IF tag = None
                   THEN step.after = step.before /\ step.out = None
                   ELSE IF step.before = None
                   THEN /\ step.out = None
                        /\ step.after # None
                        /\ step.after[1].block_type = tag[1]
                        /\ step.after[1].content = step.line
                   ELSE IF discriminant(step.before[1].block_type) = discriminant(tag[1])
                   THEN /\ step.out = None
                        /\ step.after # None
                        /\ step.after[1].id = step.before[1].id
                        /\ step.after[1].block_type = step.before[1].block_type
                        /\ step.after[1].content =
                               step.before[1].content \o <<LF>> \o step.line
                   ELSE /\ step.out # None
                        /\ step.out[1].id = step.before[1].id
                        /\ step.out[1].block_type = step.before[1].block_type
                        /\ step.out[1].content = step.before[1].content
                        /\ step.out[1].complete
                        /\ step.after # None
                        /\ step.after[1].id > step.before[1].id
                        /\ step.after[1].block_type = tag[1]
                        /\ step.after[1].content = step.line

\* Two Text lines with a blank line between them went to one block, which
\* a Tool line then finished.
C22_Witness ==
    /\ Len(seg.calls) = 4
    /\ seg.calls[2] = <<"parse", c_nl>>
    /\ seg.calls[4] = <<"parse", c_readln>>
    /\ Len(seg.out) = 1
    /\ seg.out[1].block_type = <<"Text">>
    /\ seg.out[1].content = <<"o", "k", LF, "o", "k">>
    /\ seg.parser.current_block # None
    /\ seg.parser.current_block[1].block_type = Tool("Read")

\* C23: on every line the segmenter classifies (outside a fence, no fence
\* line) that starts with no tool prefix, detect_block_type returns
\* Question exactly when the classifier's question test holds of the
\* trimmed line.
C23_SameQuestionRule ==
    seg.last # None =>
        \A k \in 1..Len(seg.last[1].steps) :
            LET step == seg.last[1].steps[k]
            IN  ~step.fence /\ ~C21_IsFence(step.line) /\ C8_ToolOf(step.line) = ""
                => (detect_block_type(step.line) = Some(<<"Question">>)
                    <=> question_line(trim(step.line)))

\* C24: a flush call on a segmenter with an open block has returned that
\* block, complete, and left no block open and the rest of the parser as
\* it was; on a segmenter with no open block it has returned nothing and
\* left the parser as it was, so a flush right after a flush has returned
\* nothing.
C24_Flush ==
    LET n == Len(seg.calls)
    IN  n > 0 /\ seg.calls[n][1] = "flush"
        => LET before == seg.last[1].before
               got == seg.last[1].ret
           IN  /\ seg.parser = [before EXCEPT !.current_block = None]
               /\ IF before.current_block = None
                  THEN got = <<>>
                  ELSE /\ Len(got) = 1
                       /\ got[1].complete
                       /\ got[1].id = before.current_block[1].id
                       /\ got[1].block_type = before.current_block[1].block_type
                       /\ got[1].content = before.current_block[1].content
               /\ n > 1 /\ seg.calls[n - 1][1] = "flush" => got = <<>>

\* A flush has returned the open Text block and the flush right after it
\* has returned nothing.
C24_Witness ==
    /\ seg.calls = << <<"parse", c_text>>, <<"flush", <<>> >>, <<"flush", <<>> >> >>
    /\ Len(seg.out) = 1
    /\ seg.out[1].complete
    /\ seg.out[1].content = <<"o", "k">>
    /\ seg.last[1].ret = <<>>

\* C25: what strip_ansi_codes returns holds no ESC, and strip_ansi_codes
\* returns it as it is.
C25_Idempotent ==
    ansi.once # None
    => /\ ansi.twice = ansi.once
       /\ \A i \in 1..Len(ansi.once[1]) : ansi.once[1][i] # ESC

\* A string with an ESC by itself, a character of two bytes and a sequence
\* that does not end was stripped to that character.
C25_Witness ==
    /\ ansi.input = <<ESC, "U+00E9", ESC, "[">>
    /\ ansi.once = Some(<<"U+00E9">>)
    /\ ansi.twice = Some(<<"U+00E9">>)

\* The blocks a new segmenter returns for the stream s given in one parse
\* call followed by flush, as [panic, blocks].
C26_OneCall(s) ==
    CHOOSE x \in {[panic |-> r.panic, blocks |-> r.blocks \o flush(r.parser).ret] :
                     r \in {SemanticBlockParser_parse(SemanticBlockParser_new, s)}} : TRUE

\* C26: when the calls on a new segmenter were parse calls and then one
\* flush, the blocks they returned are those that one parse call on the
\* chunks put together, then flush, returns.
C26_ChunkingIndependent ==
    LET n == Len(seg.calls)
    IN  /\ n >= 2
        /\ ~seg.panicked
        /\ seg.calls[n][1] = "flush"
        /\ \A k \in 1..(n - 1) : seg.calls[k][1] = "parse"
        => \A one \in {C26_OneCall(SegStream(seg.calls, n - 1))} :
               ~one.panic => seg.out = one.blocks

\* C27: after a parse call that returns, the text the call had before it
\* (the buffer it found and the chunk, stripped) is the lines it went
\* through, each with its line end, followed by the buffer it leaves: what
\* stays in the buffer was not processed.
C27_OnlyUnprocessed ==
    LET n == Len(seg.calls)
    IN  n > 0 /\ seg.calls[n][1] = "parse" /\ ~seg.panicked
        => \A seen \in {seg.last[1].before.buffer \o strip_ansi_codes(seg.calls[n][2])} :
               LET kept == seg.parser.buffer
                   done == SubSeq(seen, 1, Len(seen) - Len(kept))
               IN  /\ Len(kept) <= Len(seen)
                   /\ kept = SubSeq(seen, Len(seen) - Len(kept) + 1, Len(seen))
                   /\ done = <<>> \/ done[Len(done)] = LF
                   /\ lines(done) = [k \in 1..Len(seg.last[1].steps) |->
                                        seg.last[1].steps[k].line]

\* C28: a segmenter in code-capture mode has an open Code block.
C28_FenceHasBlock ==
    ~seg.panicked /\ seg.parser.in_code_fence
    => /\ seg.parser.current_block # None
       /\ discriminant(seg.parser.current_block[1].block_type) = "Code"

\* C29: every block the segmenter returned that is no Code block has, as
\* its type with its payload, the classification of each of its lines.
C29_TypeOfEveryLine ==
    \A b \in 1..Len(seg.out) :
        discriminant(seg.out[b].block_type) # "Code"
        => \A ls \in {lines(seg.out[b].content)} :
               \A k \in 1..Len(ls) :
                   detect_block_type(ls[k]) = Some(seg.out[b].block_type)

\* C30: once a reader thread has emitted a state change, the state info of
\* the last one it emitted is its classifier's current state info, which
\* has a tool name only in state ToolUse and a question only in state
\* Asking.
C30_DeliveredIsCurrent ==
    \A g \in Gens :
        \A sent \in {NamedBy(g, "claude-state")} :
            sent # <<>>
            => LET now == reader[g].claude_parser.current_state
               IN  /\ sent[Len(sent)].payload = now
                   /\ now.tool_name # None => now.state[1] = "ToolUse"
                   /\ now.question # None => now.state[1] = "Asking"

====
